---- MODULE Spec2Model ----
(***************************************************************************)
(* Model of the run_play_mode_tests tool                                   *)
(* (MCPForUnity/UnityMcpServer~/src/tools/run_play_mode_tests.py):         *)
(* request validation, dispatch of the start command, and the status       *)
(* polling loop with its timeout.                                          *)
(*                                                                         *)
(* One invocation of the coroutine is a process with a program counter:    *)
(*   idle     -> not called yet                                            *)
(*   starting -> suspended in the await of the start command (line 95)     *)
(*   loop_top -> about to evaluate the while condition (line 116)          *)
(*   polling  -> suspended in the await of a status command (line 119)     *)
(*   sleeping -> suspended in asyncio.sleep(0.5) (line 196)                *)
(*   done     -> returned                                                  *)
(* Python locals are per-invocation functions; the Command Channel log     *)
(* and the wall clock are shared.  Time is counted in ticks of half a      *)
(* second (the poll interval).                                             *)
(*                                                                         *)
(* Specifications:                                                         *)
(*   Spec       one invocation of the MCPForUnity tool, all inputs         *)
(*   SpecConc   two interleaved invocations, reduced inputs                *)
(*   LiveSpec   one invocation under fair scheduling                       *)
(*   SpecBridge one invocation of the UnityMcpBridge variant               *)
(***************************************************************************)
EXTENDS Integers, Sequences, FiniteSets, TLC

(***************************************************************************)
(* Bounds of the exploration                                               *)
(***************************************************************************)
\* Status commands one invocation may send before the exploration stops.
MaxPolls == 3

(***************************************************************************)
(* Program constants                                                       *)
(***************************************************************************)
\* Lower and upper clamp of the timeout, in seconds (line 109).
MinTimeout == 1
MaxTimeout == 600
\* asyncio.sleep(0.5): two poll intervals per second, one tick per sleep.
TicksPerSecond == 2
SleepTicks == 1

(***************************************************************************)
(* Input domains                                                           *)
(***************************************************************************)
Invocations == {1, 2}
\* Invocations that are called in the single-invocation specification.
Active == {1}

Actions == {"run_test_method", "run_test_class", "run_test_asmdef", "run_all"}
Assemblies == {"", "Core"}
Classes == {"", "MathTests"}
Methods == {"", "Add"}
Timeouts == {-5, 0, 1, 2, 600, 601, 10000}

\* Ticks a Command Channel round trip may take (it retries internally).
CallDelays == {0, 1, 3}
\* Ticks one asyncio.sleep(0.5) may take: at least the interval; the long
\* one stands for an event loop that resumes the task late.
SleepDelays == {SleepTicks, 2 * MaxTimeout}

Requests ==
  [action : Actions, test_assembly : Assemblies, test_class : Classes,
   test_method : Methods, timeout : Timeouts]

(***************************************************************************)
(* Python helpers                                                          *)
(***************************************************************************)
\* dict.get(k, default)
Get(d, k, default) == IF k \in DOMAIN d THEN d[k] ELSE default

\* Variant: k in d, the presence of the key counts as true.
Truthy_KeyPresent(d, k) == k \in DOMAIN d

\* bool(d.get(k)) for a key that holds a bool when present
Truthy(d, k) == k \in DOMAIN d /\ d[k] = TRUE

\* sub in s, for strings
Contains(s, sub) ==
  \E j \in 1..(Len(s) - Len(sub) + 1) : SubSeq(s, j, j + Len(sub) - 1) = sub

Max(a, b) == IF a >= b THEN a ELSE b
Min(a, b) == IF a <= b THEN a ELSE b

NoDict == <<>>

(***************************************************************************)
(* Request validation (lines 30-64, 209-210)                               *)
(* The result is the sequence of returned outcomes: empty when the         *)
(* request passes validation.                                              *)
(***************************************************************************)
ValidateMethod(a, c, m) ==
  IF a = "" \/ c = "" \/ m = ""
  THEN << [success |-> FALSE,
           message |-> "run_test_method requires test_assembly, test_class and test_method parameters."] >>
  ELSE << >>

\* Variant: a method name given in Class mode is silently ignored.
ValidateClass_IgnoresMethod(a, c, m) ==
  IF a = "" \/ c = ""
  THEN << [success |-> FALSE,
           message |-> "run_test_class requires test_assembly and test_class parameters. test_method must not be provided."] >>
  ELSE << >>

\* Variant: the method-name rejection does not name the Method mode.
ValidateClass_NoHint(a, c, m) ==
  IF a = "" \/ c = ""
  THEN << [success |-> FALSE,
           message |-> "run_test_class requires test_assembly and test_class parameters. test_method must not be provided."] >>
  ELSE IF m # ""
  THEN << [success |-> FALSE,
           message |-> "run_test_class cannot have test_method parameter."] >>
  ELSE << >>

ValidateClass(a, c, m) ==
  IF a = "" \/ c = ""
  THEN << [success |-> FALSE,
           message |-> "run_test_class requires test_assembly and test_class parameters. test_method must not be provided."] >>
  ELSE IF m # ""
  THEN << [success |-> FALSE,
           message |-> "run_test_class cannot have test_method parameter. Use run_test_method for specific method testing."] >>
  ELSE << >>

\* Variant: class and method names given in Assembly mode are not rejected.
ValidateAsmdef_NoScopeCheck(a, c, m) ==
  IF a = ""
  THEN << [success |-> FALSE,
           message |-> "run_test_asmdef requires test_assembly parameter. test_class and test_method must not be provided."] >>
  ELSE << >>

ValidateAsmdef(a, c, m) ==
  IF a = ""
  THEN << [success |-> FALSE,
           message |-> "run_test_asmdef requires test_assembly parameter. test_class and test_method must not be provided."] >>
  ELSE IF c # "" \/ m # ""
  THEN << [success |-> FALSE,
           message |-> "run_test_asmdef cannot have test_class or test_method parameters. Use run_test_class or run_test_method for more specific testing."] >>
  ELSE << >>

Validate(r) ==
  IF r.action = "run_test_method"
    THEN ValidateMethod(r.test_assembly, r.test_class, r.test_method)
  ELSE IF r.action = "run_test_class"
    THEN ValidateClass(r.test_assembly, r.test_class, r.test_method)
  ELSE IF r.action = "run_test_asmdef"
    THEN ValidateAsmdef(r.test_assembly, r.test_class, r.test_method)
  ELSE << [success |-> FALSE, message |-> "Unknown action: " \o r.action] >>

(***************************************************************************)
(* Payload of the start command (lines 66-90)                              *)
(***************************************************************************)
\* Variant: Method mode sends the method without its class.
BuildParams_ClearsClass(r) ==
  IF r.action = "run_test_method"
    THEN [action |-> r.action, test_assembly |-> r.test_assembly,
          test_class |-> "", test_method |-> r.test_method]
  ELSE IF r.action = "run_test_class"
    THEN [action |-> r.action, test_assembly |-> r.test_assembly,
          test_class |-> r.test_class, test_method |-> ""]
  ELSE [action |-> r.action, test_assembly |-> r.test_assembly,
        test_class |-> "", test_method |-> ""]

BuildParams(r) ==
  IF r.action = "run_test_method"
    THEN [action |-> r.action, test_assembly |-> r.test_assembly,
          test_class |-> r.test_class, test_method |-> r.test_method]
  ELSE IF r.action = "run_test_class"
    THEN [action |-> r.action, test_assembly |-> r.test_assembly,
          test_class |-> r.test_class, test_method |-> ""]
  ELSE [action |-> r.action, test_assembly |-> r.test_assembly,
        test_class |-> "", test_method |-> ""]

StatusParams == [action |-> "status"]

(***************************************************************************)
(* State                                                                   *)
(***************************************************************************)
VARIABLES
  pc,               \* position of each invocation
  request,          \* the arguments each invocation was called with
  params,           \* local: payload of the start command
  response,         \* local: response to the start command
  test_description, \* local: scope description
  timeout,          \* local: the timeout argument, reassigned by the clamp
  start_time,       \* local: clock reading before the first poll
  last_status,      \* local: last workflow status recorded
  test_started,     \* local: RUNNING_TEST has been observed
  status_response,  \* local: latest status response (or the fault raised)
  outcome,          \* what each invocation returned (at most one value)
  sent,             \* Command Channel: the commands sent, in order
  now,              \* wall clock, in ticks
  seen              \* history: statuses read from successful status responses

vars == << pc, request, params, response, test_description, timeout,
           start_time, last_status, test_started, status_response,
           outcome, sent, now, seen >>

locals == << params, response, test_description, timeout, start_time,
             last_status, test_started, status_response >>

NoRequest == [action |-> "", test_assembly |-> "", test_class |-> "",
              test_method |-> "", timeout |-> 0]

Init ==
  /\ pc = [i \in Invocations |-> "idle"]
  /\ request = [i \in Invocations |-> NoRequest]
  /\ params = [i \in Invocations |-> NoDict]
  /\ response = [i \in Invocations |-> NoDict]
  /\ test_description = [i \in Invocations |-> ""]
  /\ timeout = [i \in Invocations |-> 0]
  /\ start_time = [i \in Invocations |-> 0]
  /\ last_status = [i \in Invocations |-> ""]
  /\ test_started = [i \in Invocations |-> FALSE]
  /\ status_response = [i \in Invocations |-> NoDict]
  /\ outcome = [i \in Invocations |-> << >>]
  /\ sent = << >>
  /\ now = 0
  /\ seen = [i \in Invocations |-> {}]

\* The commands invocation i has sent with the given action.
SentBy(i) == SelectSeq(sent, LAMBDA c : c.by = i)
StartsBy(i) == SelectSeq(sent, LAMBDA c : c.by = i /\ c.params.action # "status")
PollsBy(i) == SelectSeq(sent, LAMBDA c : c.by = i /\ c.params.action = "status")

(***************************************************************************)
(* Call of the tool up to its first suspension (lines 28-95): validation,  *)
(* payload, and the start command handed to the Command Channel.           *)
(***************************************************************************)
Invoke(i, r) ==
  /\ pc[i] = "idle"
  /\ request' = [request EXCEPT ![i] = r]
  /\ timeout' = [timeout EXCEPT ![i] = r.timeout]
  /\ IF Validate(r) # << >>
       THEN /\ outcome' = [outcome EXCEPT ![i] = Validate(r)]
            /\ pc' = [pc EXCEPT ![i] = "done"]
            /\ UNCHANGED << params, sent >>
       ELSE /\ params' = [params EXCEPT ![i] = BuildParams(r)]
            /\ sent' = Append(sent, [by |-> i, command |-> "run_play_mode_tests",
                                     params |-> BuildParams(r)])
            /\ pc' = [pc EXCEPT ![i] = "starting"]
            /\ UNCHANGED outcome
  /\ UNCHANGED << response, test_description, start_time, last_status,
                  test_started, status_response, now, seen >>

(***************************************************************************)
(* What the Command Channel may answer                                     *)
(***************************************************************************)
\* The channel answers { success: bool, message: string, data?: mapping }.
\* Answers to the start command; success false is a refusal.
StartResponses ==
  { [success |-> TRUE, message |-> "Test run started"],
    [success |-> FALSE, message |-> "Unity is busy"],
    [success |-> FALSE, message |-> "Unknown assembly",
     data |-> [code |-> "not_found"]] }

\* Exceptions the channel may raise.
Faults == {"Connection closed"}

CompletedData ==
  { [workflow_status |-> "COMPLETED"],
    [workflow_status |-> "COMPLETED", test_result |-> "Passed",
     test_summary |-> [total |-> 1, passed |-> 1, failed |-> 0, not_run |-> 0]],
    [workflow_status |-> "COMPLETED", test_result |-> "Failed",
     test_summary |-> [total |-> 3, passed |-> 1, failed |-> 1, not_run |-> 1]],
    [workflow_status |-> "COMPLETED", test_result |-> "Inconclusive",
     test_summary |-> [total |-> 0, passed |-> 0, failed |-> 0, not_run |-> 0]],
    [workflow_status |-> "COMPLETED", test_result |-> "Passed",
     test_summary |-> [passed |-> 2, failed |-> 0]],
    [workflow_status |-> "COMPLETED", test_result |-> "Failed",
     test_summary |-> NoDict] }

ErrorData ==
  { [workflow_status |-> "ERROR", error_message |-> "compile failure"],
    [workflow_status |-> "ERROR"] }

TransientData ==
  { [workflow_status |-> "IDLE"],
    [workflow_status |-> "RUNNING_TEST"],
    [workflow_status |-> "COMPILING"],
    NoDict }

\* Answers to the status command.  A response with success false may carry
\* any data.
StatusResponses ==
  { [success |-> TRUE, message |-> "ok", data |-> d] :
      d \in CompletedData \cup ErrorData \cup TransientData }
  \cup { [success |-> TRUE, message |-> "ok"] }
  \cup { [success |-> FALSE, message |-> "stale", data |-> d] :
           d \in { [workflow_status |-> "ERROR", error_message |-> "stale"],
                   [workflow_status |-> "COMPLETED", test_result |-> "Passed"],
                   [workflow_status |-> "RUNNING_TEST"] } }
  \cup { [success |-> FALSE, message |-> "Unity is reloading"] }

(***************************************************************************)
(* Scope description (lines 100-106)                                       *)
(***************************************************************************)
Describe(r) ==
  IF r.action = "run_test_method"
    THEN "Assembly: " \o r.test_assembly \o ", Class: " \o r.test_class
         \o ", Method: " \o r.test_method
  ELSE IF r.action = "run_test_class"
    THEN "Assembly: " \o r.test_assembly \o ", Class: " \o r.test_class
  ELSE "Assembly: " \o r.test_assembly

(***************************************************************************)
(* Timeout clamp (line 109)                                                *)
(***************************************************************************)
\* Variant: only the ceiling is applied.
Clamp_NoFloor(t) == Min(t, MaxTimeout)

Clamp(t) == Max(MinTimeout, Min(t, MaxTimeout))

(***************************************************************************)
(* The start command returned (lines 95-114): a refusal is returned as it  *)
(* is; otherwise the description, the clamp and a fresh PollState.         *)
(***************************************************************************)
\* Variant: PollState and the timeout are kept at module level, one copy for
\* all invocations.
StartResponse_SharedPollState(i, resp, d) ==
  /\ pc[i] = "starting"
  /\ now' = now + d
  /\ response' = [response EXCEPT ![i] = resp]
  /\ IF ~ Truthy(resp, "success")
       THEN /\ outcome' = [outcome EXCEPT ![i] = << resp >>]
            /\ pc' = [pc EXCEPT ![i] = "done"]
            /\ UNCHANGED << test_description, timeout, start_time,
                            last_status, test_started >>
       ELSE /\ test_description' = [test_description EXCEPT ![i] = Describe(request[i])]
            /\ timeout' = [j \in Invocations |-> Clamp(timeout[i])]
            /\ start_time' = [j \in Invocations |-> now']
            /\ last_status' = [j \in Invocations |-> ""]
            /\ test_started' = [j \in Invocations |-> FALSE]
            /\ pc' = [pc EXCEPT ![i] = "loop_top"]
            /\ UNCHANGED outcome
  /\ UNCHANGED << request, params, status_response, sent, seen >>

StartResponse(i, resp, d) ==
  /\ pc[i] = "starting"
  /\ now' = now + d
  /\ response' = [response EXCEPT ![i] = resp]
  /\ IF ~ Truthy(resp, "success")
       THEN /\ outcome' = [outcome EXCEPT ![i] = << resp >>]
            /\ pc' = [pc EXCEPT ![i] = "done"]
            /\ UNCHANGED << test_description, timeout, start_time,
                            last_status, test_started >>
       ELSE /\ test_description' = [test_description EXCEPT ![i] = Describe(request[i])]
            /\ timeout' = [timeout EXCEPT ![i] = Clamp(timeout[i])]
            /\ start_time' = [start_time EXCEPT ![i] = now']
            /\ last_status' = [last_status EXCEPT ![i] = ""]
            /\ test_started' = [test_started EXCEPT ![i] = FALSE]
            /\ pc' = [pc EXCEPT ![i] = "loop_top"]
            /\ UNCHANGED outcome
  /\ UNCHANGED << request, params, status_response, sent, seen >>

(***************************************************************************)
(* The start command raised (lines 212-214)                                *)
(***************************************************************************)
PythonError(e) ==
  [success |-> FALSE, message |-> "Python error in run_play_mode_tests: " \o e]

\* Variant: no outer handler, the exception leaves the coroutine.
StartFault_Propagates(i, e, d) ==
  /\ pc[i] = "starting"
  /\ now' = now + d
  /\ pc' = [pc EXCEPT ![i] = "done"]
  /\ UNCHANGED << request, locals, outcome, sent, seen >>

StartFault(i, e, d) ==
  /\ pc[i] = "starting"
  /\ now' = now + d
  /\ outcome' = [outcome EXCEPT ![i] = << PythonError(e) >>]
  /\ pc' = [pc EXCEPT ![i] = "done"]
  /\ UNCHANGED << request, locals, sent, seen >>

(***************************************************************************)
(* Deadline check at the top of a poll cycle (lines 116-121, 198-208)      *)
(***************************************************************************)
\* time.time() - start_time < timeout, with the clock in ticks
WithinDeadline(i) == now - start_time[i] < timeout[i] * TicksPerSecond

\* Variant: the timeout messages do not name the scope.
TimeoutOutcome_NoScope(started, t, desc) ==
  IF started
  THEN [success |-> FALSE,
        message |-> "Timeout (" \o ToString(t) \o "s) waiting for test to complete"
                    \o " (test was running)"]
  ELSE [success |-> FALSE,
        message |-> "Timeout (" \o ToString(t) \o "s) waiting for test to start"]

\* Variant: the started flag is not consulted.
TimeoutOutcome_AlwaysNeverStarted(started, t, desc) ==
  [success |-> FALSE,
   message |-> "Timeout (" \o ToString(t) \o "s) waiting for test to start: "
               \o desc]

TimeoutOutcome(started, t, desc) ==
  IF started
  THEN [success |-> FALSE,
        message |-> "Timeout (" \o ToString(t) \o "s) waiting for test to complete: "
                    \o desc \o " (test was running)"]
  ELSE [success |-> FALSE,
        message |-> "Timeout (" \o ToString(t) \o "s) waiting for test to start: "
                    \o desc]

\* Variant: each cycle sends the start payload again instead of a status
\* query.
LoopCheck_ResendsStart(i) ==
  /\ pc[i] = "loop_top"
  /\ IF WithinDeadline(i)
       THEN /\ Len(SentBy(i)) <= MaxPolls
            /\ sent' = Append(sent, [by |-> i, command |-> "run_play_mode_tests",
                                     params |-> params[i]])
            /\ pc' = [pc EXCEPT ![i] = "polling"]
            /\ UNCHANGED outcome
       ELSE /\ outcome' = [outcome EXCEPT ![i] =
                 << TimeoutOutcome(test_started[i], timeout[i], test_description[i]) >>]
            /\ pc' = [pc EXCEPT ![i] = "done"]
            /\ UNCHANGED sent
  /\ UNCHANGED << request, locals, now, seen >>

LoopCheck(i) ==
  /\ pc[i] = "loop_top"
  /\ IF WithinDeadline(i)
       THEN /\ Len(PollsBy(i)) < MaxPolls
            /\ sent' = Append(sent, [by |-> i, command |-> "run_play_mode_tests",
                                     params |-> StatusParams])
            /\ pc' = [pc EXCEPT ![i] = "polling"]
            /\ UNCHANGED outcome
       ELSE /\ outcome' = [outcome EXCEPT ![i] =
                 << TimeoutOutcome(test_started[i], timeout[i], test_description[i]) >>]
            /\ pc' = [pc EXCEPT ![i] = "done"]
            /\ UNCHANGED sent
  /\ UNCHANGED << request, locals, now, seen >>

(***************************************************************************)
(* Interpretation of a status response (lines 123-190)                     *)
(***************************************************************************)
DataOf(resp) == Get(resp, "data", NoDict)
WorkflowStatus(resp) == Get(DataOf(resp), "workflow_status", "")

\* Variant: the remote error message is dropped.
ErrorOutcome_NoDetail(data) ==
  [success |-> FALSE,
   message |-> "Test execution failed",
   data |-> [workflow_status |-> Get(data, "workflow_status", ""),
             error |-> Get(data, "error_message", "")]]

\* lines 129-134
ErrorOutcome(data) ==
  [success |-> FALSE,
   message |-> "Test execution failed: " \o Get(data, "error_message", ""),
   data |-> [workflow_status |-> Get(data, "workflow_status", ""),
             error |-> Get(data, "error_message", "")]]

\* Variant: the counts are printed only for a positive total.
CountsText_PositiveOnly(test_summary) ==
  IF DOMAIN test_summary # {} /\ Get(test_summary, "total", -1) > 0
  THEN ", Total: " \o ToString(Get(test_summary, "total", 0))
       \o ", Passed: " \o ToString(Get(test_summary, "passed", 0))
       \o ", Failed: " \o ToString(Get(test_summary, "failed", 0))
       \o (IF Get(test_summary, "not_run", 0) > 0
           THEN ", Not Run: " \o ToString(Get(test_summary, "not_run", 0))
           ELSE "")
  ELSE ""

\* lines 158-164: the counts, when the summary is non-empty and has total >= 0
CountsText(test_summary) ==
  IF DOMAIN test_summary # {} /\ Get(test_summary, "total", -1) >= 0
  THEN ", Total: " \o ToString(Get(test_summary, "total", 0))
       \o ", Passed: " \o ToString(Get(test_summary, "passed", 0))
       \o ", Failed: " \o ToString(Get(test_summary, "failed", 0))
       \o (IF Get(test_summary, "not_run", 0) > 0
           THEN ", Not Run: " \o ToString(Get(test_summary, "not_run", 0))
           ELSE "")
  ELSE ""

\* lines 149-166
ResultMessage(desc, data) ==
  "Test execution completed: " \o desc
  \o " (Result: " \o Get(data, "test_result", "Unknown")
  \o CountsText(Get(data, "test_summary", NoDict))
  \o ")"

\* Variant: the data record of a completed run has no test_executed.
CompletedOutcome_NoExecutedFlag(started, desc, data) ==
  [success |-> TRUE,
   message |-> IF started THEN ResultMessage(desc, data)
               ELSE ResultMessage(desc, data) \o " (immediate completion)",
   data |-> [workflow_status |-> Get(data, "workflow_status", ""),
             test_result |-> Get(data, "test_result", "Unknown"),
             test_summary |-> Get(data, "test_summary", NoDict)]]

\* Variant: a completed run with failed tests is reported as a failure.
CompletedOutcome_FailsOnFailedTests(started, desc, data) ==
  [success |-> Get(Get(data, "test_summary", NoDict), "failed", 0) = 0,
   message |-> IF started THEN ResultMessage(desc, data)
               ELSE ResultMessage(desc, data) \o " (immediate completion)",
   data |-> [workflow_status |-> Get(data, "workflow_status", ""),
             test_executed |-> TRUE,
             test_result |-> Get(data, "test_result", "Unknown"),
             test_summary |-> Get(data, "test_summary", NoDict)]]

\* Variant: the annotation is never added.
CompletedOutcome_NeverAnnotated(started, desc, data) ==
  [success |-> TRUE,
   message |-> ResultMessage(desc, data),
   data |-> [workflow_status |-> Get(data, "workflow_status", ""),
             test_executed |-> TRUE,
             test_result |-> Get(data, "test_result", "Unknown"),
             test_summary |-> Get(data, "test_summary", NoDict)]]

\* lines 168-190
CompletedOutcome(started, desc, data) ==
  [success |-> TRUE,
   message |-> IF started THEN ResultMessage(desc, data)
               ELSE ResultMessage(desc, data) \o " (immediate completion)",
   data |-> [workflow_status |-> Get(data, "workflow_status", ""),
             test_executed |-> TRUE,
             test_result |-> Get(data, "test_result", "Unknown"),
             test_summary |-> Get(data, "test_summary", NoDict)]]

(***************************************************************************)
(* A status command returned (lines 119-190, then the sleep of line 196)   *)
(***************************************************************************)
\* Variant: test_started = (workflow_status == "RUNNING_TEST"), the flag
\* follows the latest status instead of latching.
StatusResponse_FlagFollowsStatus(i, resp, d) ==
  /\ pc[i] = "polling"
  /\ now' = now + d
  /\ status_response' = [status_response EXCEPT ![i] = resp]
  /\ IF Truthy(resp, "success")
       THEN LET data == DataOf(resp)
                workflow_status == WorkflowStatus(resp)
            IN  /\ seen' = [seen EXCEPT ![i] = @ \cup {workflow_status}]
                /\ IF workflow_status = "ERROR"
                     THEN /\ outcome' = [outcome EXCEPT ![i] = << ErrorOutcome(data) >>]
                          /\ pc' = [pc EXCEPT ![i] = "done"]
                          /\ UNCHANGED << last_status, test_started >>
                     ELSE /\ last_status' = [last_status EXCEPT ![i] = workflow_status]
                          /\ IF workflow_status = "RUNNING_TEST"
                               THEN /\ test_started' = [test_started EXCEPT ![i] = TRUE]
                                    /\ pc' = [pc EXCEPT ![i] = "sleeping"]
                                    /\ UNCHANGED outcome
                             ELSE IF workflow_status = "COMPLETED"
                               THEN /\ outcome' = [outcome EXCEPT ![i] =
                                         << CompletedOutcome(test_started[i],
                                                             test_description[i], data) >>]
                                    /\ pc' = [pc EXCEPT ![i] = "done"]
                                    /\ UNCHANGED test_started
                             ELSE /\ pc' = [pc EXCEPT ![i] = "sleeping"]
                                  /\ test_started' = [test_started EXCEPT ![i] = FALSE]
                                  /\ UNCHANGED outcome
       ELSE /\ pc' = [pc EXCEPT ![i] = "sleeping"]
            /\ UNCHANGED << outcome, last_status, test_started, seen >>
  /\ UNCHANGED << request, params, response, test_description, timeout,
                  start_time, sent >>

\* Variant: the data of a status response is interpreted whatever its
\* success field says.
StatusResponse_IgnoresSuccess(i, resp, d) ==
  /\ pc[i] = "polling"
  /\ now' = now + d
  /\ status_response' = [status_response EXCEPT ![i] = resp]
  /\ IF "success" \in DOMAIN resp
       THEN LET data == DataOf(resp)
                workflow_status == WorkflowStatus(resp)
            IN  /\ seen' = [seen EXCEPT ![i] = @ \cup {workflow_status}]
                /\ IF workflow_status = "ERROR"
                     THEN /\ outcome' = [outcome EXCEPT ![i] = << ErrorOutcome(data) >>]
                          /\ pc' = [pc EXCEPT ![i] = "done"]
                          /\ UNCHANGED << last_status, test_started >>
                     ELSE /\ last_status' = [last_status EXCEPT ![i] = workflow_status]
                          /\ IF workflow_status = "RUNNING_TEST"
                               THEN /\ test_started' = [test_started EXCEPT ![i] = TRUE]
                                    /\ pc' = [pc EXCEPT ![i] = "sleeping"]
                                    /\ UNCHANGED outcome
                             ELSE IF workflow_status = "COMPLETED"
                               THEN /\ outcome' = [outcome EXCEPT ![i] =
                                         << CompletedOutcome(test_started[i],
                                                             test_description[i], data) >>]
                                    /\ pc' = [pc EXCEPT ![i] = "done"]
                                    /\ UNCHANGED test_started
                             ELSE /\ pc' = [pc EXCEPT ![i] = "sleeping"]
                                  /\ UNCHANGED << outcome, test_started >>
       ELSE /\ pc' = [pc EXCEPT ![i] = "sleeping"]
            /\ UNCHANGED << outcome, last_status, test_started, seen >>
  /\ UNCHANGED << request, params, response, test_description, timeout,
                  start_time, sent >>

\* Variant: the deadline is checked again when the response arrives, and a
\* late response is reported as a timeout.
StatusResponse_DeadlineAfterPoll(i, resp, d) ==
  /\ pc[i] = "polling"
  /\ now' = now + d
  /\ status_response' = [status_response EXCEPT ![i] = resp]
  /\ IF now' - start_time[i] >= timeout[i] * TicksPerSecond
       THEN /\ outcome' = [outcome EXCEPT ![i] =
                 << TimeoutOutcome(test_started[i], timeout[i], test_description[i]) >>]
            /\ pc' = [pc EXCEPT ![i] = "done"]
            /\ UNCHANGED << last_status, test_started, seen >>
       ELSE
           /\ IF Truthy(resp, "success")
                THEN LET data == DataOf(resp)
                         workflow_status == WorkflowStatus(resp)
                     IN  /\ seen' = [seen EXCEPT ![i] = @ \cup {workflow_status}]
                         /\ IF workflow_status = "ERROR"
                              THEN /\ outcome' = [outcome EXCEPT ![i] = << ErrorOutcome(data) >>]
                                   /\ pc' = [pc EXCEPT ![i] = "done"]
                                   /\ UNCHANGED << last_status, test_started >>
                              ELSE /\ last_status' = [last_status EXCEPT ![i] = workflow_status]
                                   /\ IF workflow_status = "RUNNING_TEST"
                                        THEN /\ test_started' = [test_started EXCEPT ![i] = TRUE]
                                             /\ pc' = [pc EXCEPT ![i] = "sleeping"]
                                             /\ UNCHANGED outcome
                                      ELSE IF workflow_status = "COMPLETED"
                                        THEN /\ outcome' = [outcome EXCEPT ![i] =
                                                  << CompletedOutcome(test_started[i],
                                                                      test_description[i], data) >>]
                                             /\ pc' = [pc EXCEPT ![i] = "done"]
                                             /\ UNCHANGED test_started
                                      ELSE /\ pc' = [pc EXCEPT ![i] = "sleeping"]
                                           /\ UNCHANGED << outcome, test_started >>
                ELSE /\ pc' = [pc EXCEPT ![i] = "sleeping"]
                     /\ UNCHANGED << outcome, last_status, test_started, seen >>
  /\ UNCHANGED << request, params, response, test_description, timeout,
                  start_time, sent >>

StatusResponse(i, resp, d) ==
  /\ pc[i] = "polling"
  /\ now' = now + d
  /\ status_response' = [status_response EXCEPT ![i] = resp]
  /\ IF Truthy(resp, "success")
       THEN LET data == DataOf(resp)
                workflow_status == WorkflowStatus(resp)
            IN  /\ seen' = [seen EXCEPT ![i] = @ \cup {workflow_status}]
                /\ IF workflow_status = "ERROR"
                     THEN /\ outcome' = [outcome EXCEPT ![i] = << ErrorOutcome(data) >>]
                          /\ pc' = [pc EXCEPT ![i] = "done"]
                          /\ UNCHANGED << last_status, test_started >>
                     ELSE /\ last_status' = [last_status EXCEPT ![i] = workflow_status]
                          /\ IF workflow_status = "RUNNING_TEST"
                               THEN /\ test_started' = [test_started EXCEPT ![i] = TRUE]
                                    /\ pc' = [pc EXCEPT ![i] = "sleeping"]
                                    /\ UNCHANGED outcome
                             ELSE IF workflow_status = "COMPLETED"
                               THEN /\ outcome' = [outcome EXCEPT ![i] =
                                         << CompletedOutcome(test_started[i],
                                                             test_description[i], data) >>]
                                    /\ pc' = [pc EXCEPT ![i] = "done"]
                                    /\ UNCHANGED test_started
                             ELSE /\ pc' = [pc EXCEPT ![i] = "sleeping"]
                                  /\ UNCHANGED << outcome, test_started >>
       ELSE /\ pc' = [pc EXCEPT ![i] = "sleeping"]
            /\ UNCHANGED << outcome, last_status, test_started, seen >>
  /\ UNCHANGED << request, params, response, test_description, timeout,
                  start_time, sent >>

(***************************************************************************)
(* A status command raised (lines 192-196): logged, then the sleep         *)
(***************************************************************************)
Raised(e) == [raised |-> e]

\* Variant: no inner try, the exception reaches the outer handler.
StatusFault_Aborts(i, e, d) ==
  /\ pc[i] = "polling"
  /\ now' = now + d
  /\ status_response' = [status_response EXCEPT ![i] = Raised(e)]
  /\ outcome' = [outcome EXCEPT ![i] = << PythonError(e) >>]
  /\ pc' = [pc EXCEPT ![i] = "done"]
  /\ UNCHANGED << request, params, response, test_description, timeout,
                  start_time, last_status, test_started, sent, seen >>

StatusFault(i, e, d) ==
  /\ pc[i] = "polling"
  /\ now' = now + d
  /\ status_response' = [status_response EXCEPT ![i] = Raised(e)]
  /\ pc' = [pc EXCEPT ![i] = "sleeping"]
  /\ UNCHANGED << request, params, response, test_description, timeout,
                  start_time, last_status, test_started, outcome, sent, seen >>

(***************************************************************************)
(* asyncio.sleep(0.5) returned (line 196): back to the while condition     *)
(***************************************************************************)
\* Variant: the sleep returns at once, the clock does not advance.
SleepDone_NoDelay(i, d) ==
  /\ pc[i] = "sleeping"
  /\ now' = now
  /\ pc' = [pc EXCEPT ![i] = "loop_top"]
  /\ UNCHANGED << request, locals, outcome, sent, seen >>

SleepDone(i, d) ==
  /\ pc[i] = "sleeping"
  /\ now' = now + d
  /\ pc' = [pc EXCEPT ![i] = "loop_top"]
  /\ UNCHANGED << request, locals, outcome, sent, seen >>

Next ==
  \E i \in Active :
    \/ \E r \in Requests : Invoke(i, r)
    \/ \E resp \in StartResponses : \E d \in CallDelays : StartResponse(i, resp, d)
    \/ \E e \in Faults : \E d \in CallDelays : StartFault(i, e, d)
    \/ LoopCheck(i)
    \/ \E resp \in StatusResponses : \E d \in CallDelays : StatusResponse(i, resp, d)
    \/ \E e \in Faults : \E d \in CallDelays : StatusFault(i, e, d)
    \/ \E d \in SleepDelays : SleepDone(i, d)

Spec == Init /\ [][Next]_vars

(***************************************************************************)
(* Two concurrent invocations on one event loop.  They interleave at the   *)
(* suspension points (channel call, sleep) and share the Command Channel   *)
(* and the clock.  The inputs are cut down to keep the product small.      *)
(***************************************************************************)
\* Status commands one invocation may send in the concurrent exploration.
MaxConcPolls == 2

ConcRequests ==
  { [action |-> "run_test_method", test_assembly |-> "Core",
     test_class |-> "MathTests", test_method |-> "Add", timeout |-> 2],
    [action |-> "run_test_asmdef", test_assembly |-> "Core",
     test_class |-> "", test_method |-> "", timeout |-> 0],
    \* rejected by the validation
    [action |-> "run_test_class", test_assembly |-> "Core",
     test_class |-> "", test_method |-> "", timeout |-> 600] }

ConcStartResponses ==
  { [success |-> TRUE, message |-> "Test run started"],
    [success |-> FALSE, message |-> "Unity is busy"] }

ConcStatusResponses ==
  { [success |-> TRUE, message |-> "ok", data |-> d] :
      d \in { [workflow_status |-> "IDLE"],
              [workflow_status |-> "RUNNING_TEST"],
              [workflow_status |-> "COMPLETED", test_result |-> "Passed"],
              [workflow_status |-> "ERROR", error_message |-> "compile failure"] } }

ConcCallDelays == {1}

ConcNext ==
  \E i \in Invocations :
    \/ \E r \in ConcRequests : Invoke(i, r)
    \/ \E resp \in ConcStartResponses : \E d \in ConcCallDelays : StartResponse(i, resp, d)
    \/ \E e \in Faults : \E d \in ConcCallDelays : StartFault(i, e, d)
    \/ LoopCheck(i) /\ (WithinDeadline(i) => Len(PollsBy(i)) < MaxConcPolls)
    \/ \E resp \in ConcStatusResponses : \E d \in ConcCallDelays : StatusResponse(i, resp, d)
    \/ \E e \in Faults : \E d \in ConcCallDelays : StatusFault(i, e, d)
    \/ \E d \in {SleepTicks} : SleepDone(i, d)

SpecConc == Init /\ [][ConcNext]_vars

(***************************************************************************)
(* One invocation under fair scheduling: every Command Channel call comes  *)
(* back (a response or a fault), every sleep ends with the clock advanced, *)
(* and the event loop resumes the task.  The timeouts are the ones whose   *)
(* whole window fits into the poll budget of the exploration.              *)
(***************************************************************************)
LiveTimeouts == {-5, 0, 1}

LiveRequests == { r \in Requests : r.timeout \in LiveTimeouts }

StartReturns(i) ==
  \/ \E resp \in StartResponses : \E d \in CallDelays : StartResponse(i, resp, d)
  \/ \E e \in Faults : \E d \in CallDelays : StartFault(i, e, d)

StatusReturns(i) ==
  \/ \E resp \in StatusResponses : \E d \in CallDelays : StatusResponse(i, resp, d)
  \/ \E e \in Faults : \E d \in CallDelays : StatusFault(i, e, d)

SleepReturns(i) == \E d \in SleepDelays : SleepDone(i, d)

LiveNext ==
  \E i \in Active :
    \/ \E r \in LiveRequests : Invoke(i, r)
    \/ StartReturns(i)
    \/ LoopCheck(i)
    \/ StatusReturns(i)
    \/ SleepReturns(i)

Fairness ==
  \A i \in Active :
    /\ WF_vars(StartReturns(i))
    /\ WF_vars(LoopCheck(i))
    /\ WF_vars(StatusReturns(i))
    /\ WF_vars(SleepReturns(i))

LiveSpec == Init /\ [][LiveNext]_vars /\ Fairness

(***************************************************************************)
(* The UnityMcpBridge variant of the tool                                  *)
(* (UnityMcpBridge/UnityMcpServer~/src/tools/run_play_mode_tests.py).      *)
(* Its validation, payload and description differ; the refusal check, the  *)
(* clamp and the poll loop (lines 65-66, 76-176) are the same code with    *)
(* blocking calls.                                                         *)
(***************************************************************************)
\* lines 44-50, 177-178
BridgeValidate(r) ==
  IF r.action = "run_test_method" \/ r.action = "run_test_class"
     \/ r.action = "run_test_asmdef"
  THEN IF r.test_assembly = "" /\ r.test_class = "" /\ r.test_method = ""
       THEN << [success |-> FALSE,
                message |-> "At least one of test_assembly, test_class, or test_method must be specified. Running all tests is not supported via MCP."] >>
       ELSE << >>
  ELSE << [success |-> FALSE, message |-> "Unknown action: " \o r.action] >>

\* lines 53-61: the arguments as they are (none of them is None here)
BridgeParams(r) ==
  [action |-> r.action, test_assembly |-> r.test_assembly,
   test_class |-> r.test_class, test_method |-> r.test_method]

\* lines 68-74
BridgeDescribe(r) ==
  IF r.test_method # ""
    THEN "Class: " \o r.test_class \o ", Method: " \o r.test_method
  ELSE IF r.test_class # ""
    THEN "Class: " \o r.test_class
  ELSE "Assembly: " \o r.test_assembly

\* lines 43-63
BridgeInvoke(i, r) ==
  /\ pc[i] = "idle"
  /\ request' = [request EXCEPT ![i] = r]
  /\ timeout' = [timeout EXCEPT ![i] = r.timeout]
  /\ IF BridgeValidate(r) # << >>
       THEN /\ outcome' = [outcome EXCEPT ![i] = BridgeValidate(r)]
            /\ pc' = [pc EXCEPT ![i] = "done"]
            /\ UNCHANGED << params, sent >>
       ELSE /\ params' = [params EXCEPT ![i] = BridgeParams(r)]
            /\ sent' = Append(sent, [by |-> i, command |-> "run_play_mode_tests",
                                     params |-> BridgeParams(r)])
            /\ pc' = [pc EXCEPT ![i] = "starting"]
            /\ UNCHANGED outcome
  /\ UNCHANGED << response, test_description, start_time, last_status,
                  test_started, status_response, now, seen >>

\* lines 63-82
BridgeStartResponse(i, resp, d) ==
  /\ pc[i] = "starting"
  /\ now' = now + d
  /\ response' = [response EXCEPT ![i] = resp]
  /\ IF ~ Truthy(resp, "success")
       THEN /\ outcome' = [outcome EXCEPT ![i] = << resp >>]
            /\ pc' = [pc EXCEPT ![i] = "done"]
            /\ UNCHANGED << test_description, timeout, start_time,
                            last_status, test_started >>
       ELSE /\ test_description' = [test_description EXCEPT ![i] = BridgeDescribe(request[i])]
            /\ timeout' = [timeout EXCEPT ![i] = Clamp(timeout[i])]
            /\ start_time' = [start_time EXCEPT ![i] = now']
            /\ last_status' = [last_status EXCEPT ![i] = ""]
            /\ test_started' = [test_started EXCEPT ![i] = FALSE]
            /\ pc' = [pc EXCEPT ![i] = "loop_top"]
            /\ UNCHANGED outcome
  /\ UNCHANGED << request, params, status_response, sent, seen >>

\* The default of the variant and a value below the floor.
BridgeTimeouts == {0, 120}

BridgeRequests ==
  [action : Actions, test_assembly : Assemblies, test_class : Classes,
   test_method : Methods, timeout : BridgeTimeouts]

BridgeNext ==
  \E i \in Active :
    \/ \E r \in BridgeRequests : BridgeInvoke(i, r)
    \/ \E resp \in StartResponses : \E d \in CallDelays : BridgeStartResponse(i, resp, d)
    \/ \E e \in Faults : \E d \in CallDelays : StartFault(i, e, d)
    \/ LoopCheck(i)
    \/ \E resp \in StatusResponses : \E d \in CallDelays : StatusResponse(i, resp, d)
    \/ \E e \in Faults : \E d \in CallDelays : StatusFault(i, e, d)
    \/ \E d \in SleepDelays : SleepDone(i, d)

SpecBridge == Init /\ [][BridgeNext]_vars

(***************************************************************************)
(* Properties                                                              *)
(***************************************************************************)
Modes == {"run_test_method", "run_test_class", "run_test_asmdef"}

Called(i) == pc[i] # "idle"
Returned(i) == pc[i] = "done" /\ Len(outcome[i]) = 1
Failed(i) == Returned(i) /\ outcome[i][1].success = FALSE

\* The mode hierarchy, as the specification states it.
ViolatesHierarchy(r) ==
  \/ r.action \notin Modes
  \/ /\ r.action = "run_test_method"
     /\ (r.test_assembly = "" \/ r.test_class = "" \/ r.test_method = "")
  \/ /\ r.action = "run_test_class"
     /\ (r.test_assembly = "" \/ r.test_class = "" \/ r.test_method # "")
  \/ /\ r.action = "run_test_asmdef"
     /\ (r.test_assembly = "" \/ r.test_class # "" \/ r.test_method # "")

\* C1: a request that violates the mode hierarchy (or names an action
\* outside the three modes) is rejected: the invocation has returned
\* success=false and has sent no command, neither start nor status, through
\* the Command Channel.
C1_RejectedNeverDispatched ==
  \A i \in Invocations :
    (Called(i) /\ ViolatesHierarchy(request[i]))
      => /\ Failed(i)
         /\ SentBy(i) = << >>

\* An Assembly-mode request with a class name has been rejected.
C1_Witness ==
  /\ request[1].action = "run_test_asmdef"
  /\ request[1].test_assembly # ""
  /\ request[1].test_class # ""
  /\ Failed(1)
  /\ sent = << >>

\* The requests the specification lets through.
ReferenceAccept(r) ==
  \/ /\ r.action = "run_test_method"
     /\ r.test_assembly # "" /\ r.test_class # "" /\ r.test_method # ""
  \/ /\ r.action = "run_test_class"
     /\ r.test_assembly # "" /\ r.test_class # "" /\ r.test_method = ""
  \/ /\ r.action = "run_test_asmdef"
     /\ r.test_assembly # "" /\ r.test_class = "" /\ r.test_method = ""

\* C2: a request reaches dispatch (its start command is handed to the
\* Command Channel) if and only if the reference predicate holds of it.
C2_AcceptIffReference ==
  \A i \in Invocations :
    Called(i) => (Len(StartsBy(i)) >= 1 <=> ReferenceAccept(request[i]))

\* A Class-mode request with assembly and class, and no method, is in flight.
C2_Witness ==
  /\ request[1].action = "run_test_class"
  /\ request[1].test_method = ""
  /\ pc[1] = "starting"
  /\ Len(StartsBy(1)) = 1

ClassWithMethod(i) ==
  /\ Called(i)
  /\ request[i].action = "run_test_class"
  /\ request[i].test_method # ""

DirectsToMethodMode(msg) == Contains(msg, "Use run_test_method")

\* C3 as stated: every Class-mode request with a method name, whatever its
\* assembly and class, is rejected with a message that directs the caller
\* to Method mode.
C3_Original ==
  \A i \in Invocations :
    ClassWithMethod(i)
      => Failed(i) /\ DirectsToMethodMode(outcome[i][1].message)

\* C3 (amended): every Class-mode request with a method name is rejected
\* without dispatch; the message directs the caller to Method mode when
\* assembly and class are both non-empty, and otherwise it is the
\* missing-parameter message, which says that test_method must not be
\* provided and does not name Method mode.
C3_ClassWithMethodRejected ==
  \A i \in Invocations :
    ClassWithMethod(i)
      => /\ Failed(i)
         /\ SentBy(i) = << >>
         /\ IF request[i].test_assembly # "" /\ request[i].test_class # ""
              THEN DirectsToMethodMode(outcome[i][1].message)
              ELSE /\ ~ DirectsToMethodMode(outcome[i][1].message)
                   /\ Contains(outcome[i][1].message,
                               "requires test_assembly and test_class")
                   /\ Contains(outcome[i][1].message,
                               "test_method must not be provided")

\* A Class-mode request with assembly, class and method has been rejected.
C3_Witness ==
  /\ ClassWithMethod(1)
  /\ request[1].test_assembly # ""
  /\ request[1].test_class # ""
  /\ Failed(1)

\* The start command was answered (not raised) with a refusal.
StartRefused(i) ==
  /\ pc[i] \notin {"idle", "starting"}
  /\ response[i] # NoDict
  /\ ("success" \notin DOMAIN response[i] \/ response[i].success = FALSE)

\* C4: when the response to the start command has success false, the
\* invocation has returned exactly that response and has sent no status
\* command.
C4_RefusalReturnedVerbatim ==
  \A i \in Invocations :
    StartRefused(i)
      => /\ pc[i] = "done"
         /\ outcome[i] = << response[i] >>
         /\ PollsBy(i) = << >>
         /\ Len(SentBy(i)) = 1

\* A refusal that carries fields of its own has been returned.
C4_Witness ==
  /\ StartRefused(1)
  /\ "data" \in DOMAIN response[1]
  /\ outcome[1] = << response[1] >>

IsStart(c) == c.params.action # "status"

InLoop(i) == pc[i] \in {"loop_top", "polling", "sleeping"}
LeftLoop(i) ==
  /\ pc[i] = "done"
  /\ response[i] # NoDict
  /\ "success" \in DOMAIN response[i]
  /\ response[i].success = TRUE

IsTimeout(o) == o.success = FALSE /\ Contains(o.message, "Timeout (")

\* C6: from the first deadline check on, the effective timeout is the
\* caller's timeout t clamped into [1, 600]: 1 for t <= 0, 600 for t > 600,
\* t otherwise; clamping it again changes nothing; the loop runs while the
\* elapsed time is below it, and a timeout outcome reports it and is
\* returned only once it has elapsed.
C6_TimeoutClamped ==
  \A i \in Invocations :
    (InLoop(i) \/ LeftLoop(i)) =>
      LET t == request[i].timeout
          eff == timeout[i]
      IN  /\ eff >= 1 /\ eff <= 600
          /\ t <= 0 => eff = 1
          /\ t > 600 => eff = 600
          /\ (t >= 1 /\ t <= 600) => eff = t
          /\ Clamp(eff) = eff
          /\ pc[i] = "polling" => now - start_time[i] < eff * TicksPerSecond
          /\ (LeftLoop(i) /\ IsTimeout(outcome[i][1])) =>
               /\ Contains(outcome[i][1].message,
                           "Timeout (" \o ToString(eff) \o "s)")
               /\ now - start_time[i] >= eff * TicksPerSecond

\* A run called with a non-positive timeout timed out after one second.
C6_Witness ==
  /\ request[1].timeout <= 0
  /\ LeftLoop(1)
  /\ IsTimeout(outcome[1][1])
  /\ Contains(outcome[1][1].message, "Timeout (1s)")

\* The latest status call returned a response with success true and the
\* given workflow status.
Observed(i, status) ==
  /\ "success" \in DOMAIN status_response[i]
  /\ status_response[i].success = TRUE
  /\ "data" \in DOMAIN status_response[i]
  /\ "workflow_status" \in DOMAIN status_response[i].data
  /\ status_response[i].data.workflow_status = status

\* Once an invocation has returned it sends nothing more.
NoCommandAfterReturn ==
  \A i \in Invocations : pc[i] = "done" => SentBy(i)' = SentBy(i)

\* C7: a status poll that observes ERROR ends the invocation on that poll:
\* success=false, the message carries the snapshot's error message, whether
\* or not RUNNING_TEST was observed before; ERROR is never recorded as the
\* last status (the check comes first), and no further command is sent.
C7_ErrorTerminates ==
  /\ [](\A i \in Invocations :
          /\ Observed(i, "ERROR") =>
               /\ Failed(i)
               /\ outcome[i][1].message =
                    "Test execution failed: "
                    \o Get(status_response[i].data, "error_message", "")
               /\ Contains(outcome[i][1].message,
                           Get(status_response[i].data, "error_message", ""))
          /\ last_status[i] # "ERROR")
  /\ [][NoCommandAfterReturn]_vars

\* ERROR with a message arrived after RUNNING_TEST had been observed.
C7_Witness ==
  /\ Observed(1, "ERROR")
  /\ test_started[1]
  /\ Failed(1)
  /\ Contains(outcome[1][1].message, "compile failure")

\* C8: a status poll that observes COMPLETED ends the invocation on that
\* poll with success=true, whatever the test result and the counts say
\* (failed tests included), and no further command is sent.
C8_CompletedSucceeds ==
  /\ [](\A i \in Invocations :
          Observed(i, "COMPLETED") =>
            /\ Returned(i)
            /\ outcome[i][1].success = TRUE
            /\ Contains(outcome[i][1].message, "Test execution completed: "))
  /\ [][\A i \in Invocations :
          (pc[i] = "done" /\ Observed(i, "COMPLETED")) =>
            /\ pc'[i] = "done"
            /\ outcome'[i] = outcome[i]
            /\ PollsBy(i)' = PollsBy(i)]_vars

\* A run with a failed test completed and was reported as a success.
C8_Witness ==
  /\ Observed(1, "COMPLETED")
  /\ "test_summary" \in DOMAIN status_response[1].data
  /\ "failed" \in DOMAIN status_response[1].data.test_summary
  /\ status_response[1].data.test_summary.failed > 0
  /\ Returned(1)
  /\ outcome[1][1].success = TRUE

Annotated(msg) == Contains(msg, "(immediate completion)")

\* C9: when COMPLETED is observed, the message carries the "(immediate
\* completion)" annotation exactly when no earlier successful poll of this
\* invocation read RUNNING_TEST.
C9_ImmediateCompletion ==
  \A i \in Invocations :
    Observed(i, "COMPLETED")
      => /\ Returned(i)
         /\ Annotated(outcome[i][1].message) <=> "RUNNING_TEST" \notin seen[i]

\* COMPLETED after IDLE only: annotated.
C9_Witness ==
  /\ Observed(1, "COMPLETED")
  /\ seen[1] = {"IDLE", "COMPLETED"}
  /\ Annotated(outcome[1][1].message)

\* COMPLETED after RUNNING_TEST: not annotated.
C9_WitnessRunning ==
  /\ Observed(1, "COMPLETED")
  /\ "RUNNING_TEST" \in seen[1]
  /\ ~ Annotated(outcome[1][1].message)

Faulted(i) == "raised" \in DOMAIN status_response[i]

\* A status call of invocation i ends in this step by raising.
PollRaises(i) == pc[i] = "polling" /\ pc'[i] # "polling" /\ Faulted(i)'

\* C10: a fault raised by a status poll does not end the invocation: the
\* step leaves PollState (start time, last status, started flag), the
\* timeout and the outcome unchanged and goes to the sleep; the sleep lasts
\* at least one poll interval and leads back to the deadline check, which
\* either polls again or times out; an invocation whose latest poll
\* faulted has returned only by a timeout.
C10_PollFaultAbsorbed ==
  /\ [][\A i \in Invocations :
          /\ PollRaises(i) =>
               /\ pc'[i] = "sleeping"
               /\ outcome'[i] = << >>
               /\ last_status'[i] = last_status[i]
               /\ test_started'[i] = test_started[i]
               /\ start_time'[i] = start_time[i]
               /\ timeout'[i] = timeout[i]
          /\ (pc[i] = "sleeping" /\ pc'[i] # "sleeping") =>
               /\ pc'[i] = "loop_top"
               /\ now' >= now + SleepTicks
          /\ (pc[i] = "loop_top" /\ pc'[i] # "loop_top") =>
               \/ pc'[i] = "polling" /\ Len(PollsBy(i))' = Len(PollsBy(i)) + 1
               \/ pc'[i] = "done" /\ IsTimeout(outcome'[i][1])]_vars
  /\ [](\A i \in Invocations :
          (Faulted(i) /\ pc[i] = "done") =>
            /\ Returned(i)
            /\ IsTimeout(outcome[i][1])
            /\ now - start_time[i] >= timeout[i] * TicksPerSecond)

\* A poll faulted and the next one was sent.
C10_Witness ==
  /\ pc[1] = "polling"
  /\ Faulted(1)
  /\ Len(PollsBy(1)) = 2

\* Every poll faulted until the deadline: a timeout.
C10_WitnessTimeout ==
  /\ pc[1] = "done"
  /\ Faulted(1)
  /\ seen[1] = {}
  /\ IsTimeout(outcome[1][1])

WasRunningVariant(msg) ==
  /\ Contains(msg, "waiting for test to complete")
  /\ Contains(msg, "(test was running)")

NeverStartedVariant(msg) == Contains(msg, "waiting for test to start")

\* C11: an invocation that left the poll loop without a successful poll
\* reading ERROR or COMPLETED has timed out: the deadline has elapsed, the
\* outcome has success=false, and its message is the "waiting for test to
\* complete ... (test was running)" variant exactly when some successful
\* poll read RUNNING_TEST and the "waiting for test to start" variant
\* exactly when none did.
C11_TimeoutVariants ==
  \A i \in Invocations :
    LeftLoop(i) =>
      /\ Returned(i)
      /\ (~ Observed(i, "ERROR") /\ ~ Observed(i, "COMPLETED")) =>
           /\ IsTimeout(outcome[i][1])
           /\ now - start_time[i] >= timeout[i] * TicksPerSecond
      /\ IsTimeout(outcome[i][1]) =>
           /\ outcome[i][1].success = FALSE
           /\ WasRunningVariant(outcome[i][1].message) <=> "RUNNING_TEST" \in seen[i]
           /\ NeverStartedVariant(outcome[i][1].message) <=> "RUNNING_TEST" \notin seen[i]

\* The remote stayed IDLE over several polls until the deadline.
C11_Witness ==
  /\ LeftLoop(1)
  /\ seen[1] = {"IDLE"}
  /\ Len(PollsBy(1)) >= 2
  /\ NeverStartedVariant(outcome[1][1].message)

\* RUNNING_TEST, then another non-terminal status, then the deadline.
C11_WitnessRunning ==
  /\ LeftLoop(1)
  /\ seen[1] = {"RUNNING_TEST", "COMPILING"}
  /\ last_status[1] = "COMPILING"
  /\ WasRunningVariant(outcome[1][1].message)

\* The await of the start command raised: the command went out, no
\* response was bound, and the coroutine is over.
StartRaised(i) ==
  /\ pc[i] = "done"
  /\ Len(StartsBy(i)) = 1
  /\ response[i] = NoDict

Structured(o) ==
  /\ "success" \in DOMAIN o
  /\ o.success \in BOOLEAN
  /\ "message" \in DOMAIN o
  /\ o.message \in STRING

\* C12: a fault raised by the start command ends the invocation with a
\* returned outcome that has success=false and carries the fault's text,
\* and no status command is sent; and every invocation that is over has
\* returned one outcome with a boolean success and a message (nothing is
\* raised to the caller).
C12_StartFaultReported ==
  \A i \in Invocations :
    /\ StartRaised(i) =>
         /\ Failed(i)
         /\ Contains(outcome[i][1].message, "Python error in run_play_mode_tests: ")
         /\ \E e \in Faults : Contains(outcome[i][1].message, e)
         /\ PollsBy(i) = << >>
    /\ pc[i] = "done" =>
         /\ Len(outcome[i]) = 1
         /\ Structured(outcome[i][1])
    /\ pc[i] # "done" => outcome[i] = << >>

\* The start command raised and the fault was reported.
C12_Witness ==
  /\ StartRaised(1)
  /\ Failed(1)
  /\ Contains(outcome[1][1].message, "Connection closed")

\* The description names the scope of the request, field by field.
NamesScope(desc, r) ==
  /\ Contains(desc, "Assembly: " \o r.test_assembly)
  /\ r.action \in {"run_test_method", "run_test_class"}
       => Contains(desc, "Class: " \o r.test_class)
  /\ r.action = "run_test_method" => Contains(desc, "Method: " \o r.test_method)

\* C13 as stated: every outcome produced after an accepted dispatch
\* (COMPLETED, remote ERROR, both timeouts) contains the scope description
\* of the request.
C13_Original ==
  \A i \in Invocations :
    (LeftLoop(i) /\ Returned(i)) =>
      /\ NamesScope(test_description[i], request[i])
      /\ Contains(outcome[i][1].message, test_description[i])

\* C13 (amended): the COMPLETED outcome and both timeout outcomes contain
\* the scope description of the request; the remote ERROR outcome does
\* not: its message is "Test execution failed: " followed by the remote
\* error message and nothing else.
C13_ScopeInCompletedAndTimeout ==
  \A i \in Invocations :
    (LeftLoop(i) /\ Returned(i)) =>
      /\ NamesScope(test_description[i], request[i])
      /\ IF Observed(i, "ERROR")
           THEN /\ outcome[i][1].message =
                     "Test execution failed: "
                     \o Get(status_response[i].data, "error_message", "")
                /\ ~ Contains(outcome[i][1].message, test_description[i])
           ELSE /\ Observed(i, "COMPLETED") \/ IsTimeout(outcome[i][1])
                /\ Contains(outcome[i][1].message, test_description[i])

\* A Method-mode run timed out; the message names assembly, class, method.
C13_Witness ==
  /\ LeftLoop(1)
  /\ IsTimeout(outcome[1][1])
  /\ Contains(outcome[1][1].message, "Assembly: Core, Class: MathTests, Method: Add")

\* A Method-mode run completed; the message names class and method.
C13_WitnessCompleted ==
  /\ LeftLoop(1)
  /\ Observed(1, "COMPLETED")
  /\ Contains(outcome[1][1].message, "Class: MathTests, Method: Add")
  /\ Contains(outcome[1][1].message, "Passed: 1")

\* The summary of the COMPLETED snapshot the invocation returned on.
SummaryOf(i) ==
  IF "test_summary" \in DOMAIN status_response[i].data
  THEN status_response[i].data.test_summary
  ELSE NoDict

HasCounts(msg) ==
  Contains(msg, "Total: ") \/ Contains(msg, "Passed: ") \/ Contains(msg, "Failed: ")

HasAllCounts(msg) ==
  Contains(msg, "Total: ") /\ Contains(msg, "Passed: ") /\ Contains(msg, "Failed: ")

\* The summary records tests: it has a total above zero.
RecordsTests(sm) == "total" \in DOMAIN sm /\ sm.total > 0

\* C14 as stated: a summary with no recorded tests (absent, empty, or with
\* total = 0) leaves no Total/Passed/Failed counts in the COMPLETED
\* message, and Not Run appears only when notRun > 0.
C14_Original ==
  \A i \in Invocations :
    Observed(i, "COMPLETED") =>
      /\ Returned(i)
      /\ ~ RecordsTests(SummaryOf(i)) => ~ HasCounts(outcome[i][1].message)
      /\ Contains(outcome[i][1].message, "Not Run: ")
           => ("not_run" \in DOMAIN SummaryOf(i) /\ SummaryOf(i).not_run > 0)

\* The summary has a total that is not negative.
HasTotal(sm) == "total" \in DOMAIN sm /\ sm.total >= 0

\* C14 (amended): the COMPLETED message carries the Total/Passed/Failed
\* counts exactly when the summary has a total >= 0, a total of 0 included
\* (the counts are then printed as zeros); a summary that is absent, empty
\* or without a total is omitted; Not Run appears exactly when the counts
\* are printed and notRun > 0.
C14_CountsWhenTotalPresent ==
  \A i \in Invocations :
    Observed(i, "COMPLETED") =>
      LET sm == SummaryOf(i)
          msg == outcome[i][1].message
      IN  /\ Returned(i)
          /\ HasCounts(msg) <=> HasTotal(sm)
          /\ HasTotal(sm) =>
               /\ HasAllCounts(msg)
               /\ Contains(msg, ", Total: " \o ToString(sm.total) \o ", Passed: ")
          /\ Contains(msg, "Not Run: ")
               <=> (HasTotal(sm) /\ "not_run" \in DOMAIN sm /\ sm.not_run > 0)

\* A run that recorded no test completed: the counts are printed as zeros.
C14_Witness ==
  /\ Observed(1, "COMPLETED")
  /\ HasTotal(SummaryOf(1))
  /\ SummaryOf(1).total = 0
  /\ Contains(outcome[1][1].message, "Total: 0, Passed: 0, Failed: 0)")

\* A summary without a total is left out of the message.
C14_WitnessOmitted ==
  /\ Observed(1, "COMPLETED")
  /\ "passed" \in DOMAIN SummaryOf(1)
  /\ ~ HasTotal(SummaryOf(1))
  /\ ~ HasCounts(outcome[1][1].message)

\* Not Run is printed for a run that skipped a test.
C14_WitnessNotRun ==
  /\ Observed(1, "COMPLETED")
  /\ Contains(outcome[1][1].message, "Failed: 1, Not Run: 1)")

\* C15 as stated: an outcome of a terminal path (COMPLETED or ERROR) that
\* carries a data record has both workflow_status and test_executed in it.
C15_Original ==
  \A i \in Invocations :
    (LeftLoop(i) /\ Returned(i) /\ "data" \in DOMAIN outcome[i][1]) =>
      /\ "workflow_status" \in DOMAIN outcome[i][1].data
      /\ "test_executed" \in DOMAIN outcome[i][1].data

\* C15 (amended): in every run mode, the data record of the COMPLETED
\* outcome has workflow_status, test_executed (true), test_result and
\* test_summary; the data record of the ERROR outcome has workflow_status
\* and error only, without test_executed; a timeout outcome has no data
\* record.
C15_DataRecordPerPath ==
  \A i \in Invocations :
    (LeftLoop(i) /\ Returned(i)) =>
      LET o == outcome[i][1] IN
        /\ Observed(i, "COMPLETED") =>
             /\ "data" \in DOMAIN o
             /\ DOMAIN o.data = {"workflow_status", "test_executed",
                                  "test_result", "test_summary"}
             /\ o.data.workflow_status = "COMPLETED"
             /\ o.data.test_executed = TRUE
        /\ Observed(i, "ERROR") =>
             /\ "data" \in DOMAIN o
             /\ DOMAIN o.data = {"workflow_status", "error"}
             /\ o.data.workflow_status = "ERROR"
        /\ (~ Observed(i, "COMPLETED") /\ ~ Observed(i, "ERROR")) =>
             "data" \notin DOMAIN o

\* An Assembly-mode run completed and returned its data record.
C15_Witness ==
  /\ request[1].action = "run_test_asmdef"
  /\ LeftLoop(1)
  /\ Observed(1, "COMPLETED")
  /\ outcome[1][1].data.test_executed = TRUE

\* A remote ERROR returned a data record without test_executed.
C15_WitnessError ==
  /\ LeftLoop(1)
  /\ Observed(1, "ERROR")
  /\ "test_executed" \notin DOMAIN outcome[1][1].data

\* The state private to invocation j is the same before and after the step.
PrivateUnchanged(j) ==
  /\ start_time'[j] = start_time[j]
  /\ last_status'[j] = last_status[j]
  /\ test_started'[j] = test_started[j]
  /\ timeout'[j] = timeout[j]
  /\ test_description'[j] = test_description[j]
  /\ params'[j] = params[j]
  /\ response'[j] = response[j]
  /\ status_response'[j] = status_response[j]
  /\ outcome'[j] = outcome[j]
  /\ request'[j] = request[j]

\* What the PollState of invocation i holds is what i itself was given and
\* has read: the clamp of its own timeout, its own observations, and a
\* start time not after the current clock.
OwnPollState(i) ==
  /\ timeout[i] = Max(1, Min(request[i].timeout, 600))
  /\ test_started[i] <=> "RUNNING_TEST" \in seen[i]
  /\ last_status[i] \in seen[i] \cup {""}
  /\ start_time[i] <= now
  /\ test_description[i] = Describe(request[i])

\* C16: with two invocations interleaved at their suspension points, every
\* step is the step of one invocation and leaves the PollState (start
\* time, last status, started flag), the effective timeout and every other
\* local of the other invocation unchanged; and at every point the
\* PollState of an invocation in its loop reflects its own request and its
\* own observations only.
C16_PollStateIsolated ==
  /\ [][\A i \in Invocations : \A j \in Invocations \ {i} :
          pc'[i] # pc[i] => (pc'[j] = pc[j] /\ PrivateUnchanged(j))]_vars
  /\ [](\A i \in Invocations : (InLoop(i) \/ LeftLoop(i)) => OwnPollState(i))

\* Both invocations are in their loops with different PollStates.
C16_Witness ==
  /\ pc[1] = "sleeping"
  /\ pc[2] = "polling"
  /\ test_started[1] /\ ~ test_started[2]
  /\ timeout[1] # timeout[2]
  /\ start_time[1] # start_time[2]
  /\ Len(PollsBy(1)) >= 1 /\ Len(PollsBy(2)) >= 1

\* C17: under fair scheduling (channel calls return, sleeps end, the clock
\* advances) every invocation that was called eventually returns, it
\* returns one outcome, and the outcome never changes afterwards; this
\* covers remotes that never reach a terminal status and remotes whose
\* every poll faults.
C17_EventuallyReturns ==
  /\ \A i \in Active : Called(i) ~> Returned(i)
  /\ [](\A i \in Invocations : Len(outcome[i]) <= 1)
  /\ [][\A i \in Invocations :
          outcome[i] # << >> => (outcome'[i] = outcome[i] /\ pc'[i] = "done")]_vars

\* The remote never left a non-terminal status and the invocation returned.
C17_Witness ==
  /\ LeftLoop(1)
  /\ Len(PollsBy(1)) = 2
  /\ seen[1] = {"COMPILING"}
  /\ IsTimeout(outcome[1][1])

\* Every poll faulted and the invocation returned.
C17_WitnessFaults ==
  /\ LeftLoop(1)
  /\ Len(PollsBy(1)) = 2
  /\ seen[1] = {}
  /\ Faulted(1)
  /\ Returned(1)

\* The poll budget of the exploration never stops a loop of LiveSpec.
LiveBudgetNotReached ==
  \A i \in Active :
    (pc[i] = "loop_top" /\ WithinDeadline(i)) => Len(PollsBy(i)) < MaxPolls

\* C18: in the UnityMcpBridge variant, as its docstring states, a
\* run_test_method request with an empty test_class or an empty
\* test_method, and any request whose three scope fields are all empty, is
\* rejected with success=false and no start command is sent.
C18_BridgeMethodNeedsClassAndMethod ==
  \A i \in Invocations :
    LET r == request[i] IN
      ( /\ Called(i)
        /\ r.action \in Modes
        /\ \/ r.action = "run_test_method" /\ (r.test_class = "" \/ r.test_method = "")
           \/ r.test_assembly = "" /\ r.test_class = "" /\ r.test_method = "" )
      => /\ Failed(i)
         /\ StartsBy(i) = << >>

\* The latest status call returned success true with a status that is
\* neither RUNNING_TEST nor terminal (IDLE, another transient, or none).
ObservedTransient(i) ==
  /\ "success" \in DOMAIN status_response[i]
  /\ status_response[i].success = TRUE
  /\ ~ Observed(i, "RUNNING_TEST")
  /\ ~ Observed(i, "COMPLETED")
  /\ ~ Observed(i, "ERROR")

\* The status that response carried, "" when it carried none.
StatusRead(i) ==
  IF /\ "data" \in DOMAIN status_response[i]
     /\ "workflow_status" \in DOMAIN status_response[i].data
  THEN status_response[i].data.workflow_status
  ELSE ""

PollReturns(i) == pc[i] = "polling" /\ pc'[i] # "polling"

\* C19: within an invocation test_started is false when the loop is
\* entered, becomes true only in a step where a successful poll reads
\* RUNNING_TEST, and is never reset afterwards; a successful poll that
\* reads IDLE or an unrecognized status records it as the last status,
\* changes nothing else of the invocation, and leads to the sleep.
C19_StartedFlagMonotonic ==
  /\ [](\A i \in Invocations :
          (pc[i] = "loop_top" /\ PollsBy(i) = << >>)
            => (~ test_started[i] /\ last_status[i] = ""))
  /\ [][\A i \in Invocations :
          /\ test_started[i] => test_started'[i]
          /\ (~ test_started[i] /\ test_started'[i])
               => (PollReturns(i) /\ Observed(i, "RUNNING_TEST")')
          /\ (PollReturns(i) /\ ObservedTransient(i)') =>
               /\ pc'[i] = "sleeping"
               /\ last_status'[i] = StatusRead(i)'
               /\ test_started'[i] = test_started[i]
               /\ outcome'[i] = << >>
               /\ start_time'[i] = start_time[i]
               /\ timeout'[i] = timeout[i]]_vars

\* IDLE was read after RUNNING_TEST: the flag is still set.
C19_Witness ==
  /\ pc[1] = "sleeping"
  /\ Observed(1, "IDLE")
  /\ last_status[1] = "IDLE"
  /\ test_started[1]

\* C20: an invocation that passes validation sends exactly one start
\* command, as its first command; every later command is a status query,
\* and a status query is sent only once the start command was answered
\* with success true.
C20_OneStartThenStatus ==
  \A i \in Invocations :
    Called(i) =>
      LET mine == SentBy(i) IN
        /\ ReferenceAccept(request[i]) =>
             /\ Len(mine) >= 1
             /\ mine[1].command = "run_play_mode_tests"
             /\ mine[1].params.action = request[i].action
        /\ ~ ReferenceAccept(request[i]) => mine = << >>
        /\ \A k \in 2..Len(mine) :
             /\ mine[k].command = "run_play_mode_tests"
             /\ mine[k].params = [action |-> "status"]
        /\ Len(mine) >= 2 =>
             /\ "success" \in DOMAIN response[i]
             /\ response[i].success = TRUE
        /\ pc[i] = "starting" => Len(mine) = 1

\* One start command and several status queries after it.
C20_Witness ==
  /\ Len(SentBy(1)) = 3
  /\ sent[1].params.action = "run_test_class"
  /\ sent[2].params.action = "status"
  /\ sent[3].params.action = "status"
  /\ response[1].success = TRUE

\* The latest status call returned normally with success false.
PollRefused(i) ==
  /\ "success" \in DOMAIN status_response[i]
  /\ status_response[i].success = FALSE

\* C21: a status response that returns normally with success false is
\* ignored as a whole, whatever its data says (ERROR, COMPLETED and
\* RUNNING_TEST included): the step does not end the invocation, leaves
\* the last status, the started flag and the record of observed statuses
\* unchanged, and goes to the sleep, after which the loop goes on.
C21_FailedStatusIgnored ==
  [][\A i \in Invocations :
       (PollReturns(i) /\ PollRefused(i)') =>
         /\ pc'[i] = "sleeping"
         /\ outcome'[i] = << >>
         /\ last_status'[i] = last_status[i]
         /\ test_started'[i] = test_started[i]
         /\ seen'[i] = seen[i]
         /\ start_time'[i] = start_time[i]
         /\ timeout'[i] = timeout[i]]_vars

\* A refused status response that said ERROR was passed over and the next
\* poll is out.
C21_Witness ==
  /\ pc[1] = "polling"
  /\ PollRefused(1)
  /\ "data" \in DOMAIN status_response[1]
  /\ status_response[1].data.workflow_status = "ERROR"
  /\ Len(PollsBy(1)) = 2
  /\ outcome[1] = << >>

\* A refused status response that said RUNNING_TEST did not set the flag.
C21_WitnessRunning ==
  /\ pc[1] = "sleeping"
  /\ PollRefused(1)
  /\ "data" \in DOMAIN status_response[1]
  /\ status_response[1].data.workflow_status = "RUNNING_TEST"
  /\ ~ test_started[1]

\* The deadline of invocation i has elapsed.
DeadlinePassed(i) == now - start_time[i] >= timeout[i] * TicksPerSecond

\* C22: the deadline is evaluated only at the top of a poll cycle: a
\* timeout outcome is produced only by the deadline check, never by the
\* step that receives a status response; an invocation whose successful
\* poll read COMPLETED or ERROR has returned that terminal outcome, also
\* when the deadline elapsed while the poll was in flight; and a timeout
\* outcome is returned only when no successful poll read COMPLETED or
\* ERROR.
C22_TerminalBeatsTimeout ==
  /\ [][\A i \in Invocations :
          (outcome[i] = << >> /\ outcome'[i] # << >> /\ LeftLoop(i)'
           /\ IsTimeout(outcome'[i][1]))
            => (pc[i] = "loop_top" /\ DeadlinePassed(i) /\ now' = now)]_vars
  /\ [](\A i \in Invocations :
          /\ Observed(i, "COMPLETED") =>
               /\ Returned(i)
               /\ outcome[i][1].success = TRUE
               /\ ~ IsTimeout(outcome[i][1])
               /\ outcome[i][1].data.workflow_status = "COMPLETED"
          /\ Observed(i, "ERROR") =>
               /\ Returned(i)
               /\ ~ IsTimeout(outcome[i][1])
               /\ outcome[i][1].data.workflow_status = "ERROR"
          /\ (LeftLoop(i) /\ IsTimeout(outcome[i][1])) =>
               /\ "COMPLETED" \notin seen[i]
               /\ "ERROR" \notin seen[i])

\* COMPLETED arrived after the deadline had elapsed during the poll.
C22_Witness ==
  /\ Observed(1, "COMPLETED")
  /\ DeadlinePassed(1)
  /\ Returned(1)
  /\ outcome[1][1].success = TRUE

\* ERROR arrived after the deadline had elapsed during the poll.
C22_WitnessError ==
  /\ Observed(1, "ERROR")
  /\ DeadlinePassed(1)
  /\ Failed(1)
  /\ Contains(outcome[1][1].message, "Test execution failed: ")
====
